---- MODULE Spec2Model ----
(***************************************************************************)
(* A model of src/main.go: a hash-linked ledger served over HTTP.  Every   *)
(* request runs handleAPIRequests on a goroutine of its own; the flows     *)
(* share the global slice Blockchain and the global mutex.                 *)
(*                                                                         *)
(* Go strings are sequences of one-character strings, so that string       *)
(* concatenation, strconv.Itoa, fmt.Sprint and the slice hash[:difficulty] *)
(* are computed and not assumed.  SHA-256 is modelled as an ideal hash:    *)
(* the digest of a record is a checksum of the record written as hex       *)
(* digits (these are the digits the difficulty test looks at), followed by *)
(* the record itself, which makes the digest collision free.               *)
(***************************************************************************)
EXTENDS Integers, Sequences, FiniteSets, TLC

\* ---------------------------------------------------------------- bounds
NumFlows == 2
MaxNow == 1
MaxNonce == 40
NumReaders == 1

\* ------------------------------------------------------- program constants
difficulty == 1

Flows == 1..NumFlows

\* further clients, whose request is a GET
Readers == (NumFlows + 1)..(NumFlows + NumReaders)

AllFlows == Flows \cup Readers

\* ------------------------------------------------------------------ strings
Digit == <<"0", "1", "2", "3", "4", "5", "6", "7", "8", "9">>
HexDigit == Digit \o <<"a", "b", "c", "d", "e", "f">>

\* the byte value of a character (ASCII)
Ascii ==
    [c \in {" ", "-", "T", "[", "]", "{", "}"} \cup {HexDigit[i] : i \in 1..16} |->
        CASE c = " " -> 32 [] c = "-" -> 45
          [] c = "0" -> 48 [] c = "1" -> 49 [] c = "2" -> 50 [] c = "3" -> 51
          [] c = "4" -> 52 [] c = "5" -> 53 [] c = "6" -> 54 [] c = "7" -> 55
          [] c = "8" -> 56 [] c = "9" -> 57
          [] c = "T" -> 84 [] c = "[" -> 91 [] c = "]" -> 93
          [] c = "a" -> 97 [] c = "b" -> 98 [] c = "c" -> 99 [] c = "d" -> 100
          [] c = "e" -> 101 [] c = "f" -> 102
          [] c = "{" -> 123 [] c = "}" -> 125]

Code(c) == Ascii[c]

RECURSIVE ItoaNat(_)
ItoaNat(n) == IF n < 10 THEN <<Digit[n + 1]>>
              ELSE ItoaNat(n \div 10) \o <<Digit[(n % 10) + 1]>>

\* strconv.Itoa
Itoa(n) == IF n < 0 THEN <<"-">> \o ItoaNat(0 - n) ELSE ItoaNat(n)

\* time.Now().String(): the reading of the clock, formatted
TimeString(t) == <<"T">> \o Itoa(t)

\* -------------------------------------------------------------- data model
Transaction(s, r, a) == [Sender |-> s, Receiver |-> r, Amount |-> a]

\* Block{}: the zero value of the struct
ZeroBlock ==
    [Index |-> 0, Timestamp |-> <<>>, Transactions |-> <<>>, PrevHash |-> <<>>,
     Hash |-> <<>>, Nonce |-> <<>>, Difficulty |-> 0]

Last(s) == s[Len(s)]

\* fmt.Sprint of one Transaction: {Sender Receiver Amount}
SprintTransaction(t) ==
    <<"{">> \o t.Sender \o <<" ">> \o t.Receiver \o <<" ">> \o Itoa(t.Amount) \o <<"}">>

RECURSIVE SprintElems(_, _)
SprintElems(ts, n) ==
    IF n = 0 THEN <<>>
    ELSE IF n = 1 THEN SprintTransaction(ts[1])
    ELSE SprintElems(ts, n - 1) \o <<" ">> \o SprintTransaction(ts[n])

\* fmt.Sprint of a []Transaction: [e1 e2 ...]
SprintTransactions(ts) == <<"[">> \o SprintElems(ts, Len(ts)) \o <<"]">>

\* ------------------------------------------------------------------ hashing
RECURSIVE Checksum(_, _)
Checksum(s, n) == IF n = 0 THEN 7 ELSE (Checksum(s, n - 1) * 31 + Code(s[n])) % 256

\* sha256 + hex.EncodeToString, idealised: leading hex digits, then the preimage
Sha256Hex(record) ==
    LET h == Checksum(record, Len(record))
    IN  <<HexDigit[(h % 16) + 1], HexDigit[(h \div 16) + 1]>> \o record

calculateHash(block) ==
    LET record == Itoa(block.Index) \o block.Timestamp \o block.PrevHash
                    \o SprintTransactions(block.Transactions) \o block.Nonce
    IN  Sha256Hex(record)

isHashValid(hash, d) ==
    LET prefix == [i \in 1..d |-> "0"]
    IN  SubSeq(hash, 1, d) = prefix

\* ---------------------------------------------------------------- validator
\* isBlockValid with a fourth test, of the difficulty prefix of the hash
isBlockValidWithDifficulty(newBlock, oldBlock) ==
    IF oldBlock.Index + 1 # newBlock.Index THEN FALSE
    ELSE IF oldBlock.Hash # newBlock.PrevHash THEN FALSE
    ELSE IF calculateHash(newBlock) # newBlock.Hash THEN FALSE
    ELSE IF ~isHashValid(newBlock.Hash, newBlock.Difficulty) THEN FALSE
    ELSE TRUE

isBlockValid(newBlock, oldBlock) ==
    IF oldBlock.Index + 1 # newBlock.Index THEN FALSE
    ELSE IF oldBlock.Hash # newBlock.PrevHash THEN FALSE
    ELSE IF calculateHash(newBlock) # newBlock.Hash THEN FALSE
    ELSE TRUE

\* isTransactionValid with the amount tested by < 0 in place of <= 0
isTransactionValidZeroAmount(transaction) ==
    IF transaction.Sender = <<>> \/ transaction.Receiver = <<>> \/ transaction.Amount < 0
    THEN FALSE
    ELSE TRUE

isTransactionValid(transaction) ==
    IF transaction.Sender = <<>> \/ transaction.Receiver = <<>> \/ transaction.Amount <= 0
    THEN FALSE
    ELSE TRUE

\* ------------------------------------------------------------------ factory
\* the candidate numbered with the index of its predecessor
newCandidateSameIndex(oldBlock, transactions, t) ==
    [Index |-> oldBlock.Index, Timestamp |-> TimeString(t),
     Transactions |-> transactions, PrevHash |-> oldBlock.Hash,
     Hash |-> <<>>, Nonce |-> <<>>, Difficulty |-> difficulty]

\* generateBlock, lines 119-127: the candidate before mining
newCandidate(oldBlock, transactions, t) ==
    [Index |-> oldBlock.Index + 1, Timestamp |-> TimeString(t),
     Transactions |-> transactions, PrevHash |-> oldBlock.Hash,
     Hash |-> <<>>, Nonce |-> <<>>, Difficulty |-> difficulty]

\* the mining loop with the nonce stepped by 2
RECURSIVE mineFromByTwo(_, _)
mineFromByTwo(block, i) ==
    LET b == [block EXCEPT !.Nonce = Itoa(i)]
        hash == calculateHash(b)
    IN  IF isHashValid(hash, b.Difficulty) THEN [b EXCEPT !.Hash = hash]
        ELSE IF i < MaxNonce THEN mineFromByTwo(block, i + 2)
        ELSE b

\* generateBlock, lines 130-137: the mining loop from nonce i on.  The loop of
\* the program is unbounded; a search that passes MaxNonce returns no hash.
RECURSIVE mineFrom(_, _)
mineFrom(block, i) ==
    LET b == [block EXCEPT !.Nonce = Itoa(i)]
        hash == calculateHash(b)
    IN  IF isHashValid(hash, b.Difficulty) THEN [b EXCEPT !.Hash = hash]
        ELSE IF i < MaxNonce THEN mineFrom(block, i + 1)
        ELSE b

mine(block) == mineFrom(block, 0)

\* ------------------------------------------------------------------- inputs
Senders == {<<>>, <<"a">>}
Receivers == {<<>>, <<"b">>}
Amounts == {-1, 0, 2}
\* the transactions a body decodes to: the valid one, and those with one bad field
TxInputs ==
    {t \in {Transaction(s, r, a) : s \in Senders, r \in Receivers, a \in Amounts} :
        Cardinality({f \in {"s", "r", "a"} :
            \/ f = "s" /\ t.Sender = <<>>
            \/ f = "r" /\ t.Receiver = <<>>
            \/ f = "a" /\ t.Amount <= 0}) <= 1}

\* a response: status code, text, and the blocks (GET) or block index (POST)
Response(code, text, blocks, index) ==
    [code |-> code, text |-> text, blocks |-> blocks, index |-> index]

NoResponse == Response(0, "", <<>>, 0)

VARIABLES Blockchain, mutex, now, pc, method, transaction, newBlock, resp, readAt

\* readAt is a history variable: the length of the chain when the flow's GET
\* read it (one more than the appends made before the read), and the flows
\* that stood in their append at that moment
vars == <<Blockchain, mutex, now, pc, method, transaction, newBlock, resp, readAt>>

\* a genesis block numbered as generateBlock numbers a block
genesisBlockNumbered(t) ==
    [Index |-> ZeroBlock.Index + 1, Timestamp |-> TimeString(t), Transactions |-> <<>>,
     PrevHash |-> <<>>, Hash |-> calculateHash(ZeroBlock), Nonce |-> <<>>,
     Difficulty |-> difficulty]

\* initializeBlockchain: the hash is taken of Block{} before the fields are set
genesisBlock(t) ==
    [Index |-> 0, Timestamp |-> TimeString(t), Transactions |-> <<>>,
     PrevHash |-> <<>>, Hash |-> calculateHash(ZeroBlock), Nonce |-> <<>>,
     Difficulty |-> difficulty]

Init ==
    /\ now = 0
    /\ Blockchain = <<genesisBlock(0)>>
    /\ mutex = 0
    /\ pc = [p \in AllFlows |-> "idle"]
    /\ method = [p \in AllFlows |-> ""]
    /\ transaction = [p \in AllFlows |-> Transaction(<<>>, <<>>, 0)]
    /\ newBlock = [p \in AllFlows |-> ZeroBlock]
    /\ resp = [p \in AllFlows |-> NoResponse]
    /\ readAt = [p \in AllFlows |-> [len |-> 0, appending |-> {}]]

\* ------------------------------------------------- unsynchronised reads
\* A flow that holds the mutex at line 109 is storing into the slice.  The
\* compiled append stores the new length before it stores the element, and the
\* element is several words: a reader that does not take the mutex sees the
\* slice as it was, or the longer slice with any part of the element stored.
Writers(p) == {q \in Flows \ {p} : pc[q] = "append"}

TornBlocks(b) ==
    {[Index |-> i, Timestamp |-> ts, Transactions |-> txs, PrevHash |-> ph,
      Hash |-> h, Nonce |-> n, Difficulty |-> d] :
        i \in {0, b.Index}, ts \in {<<>>, b.Timestamp},
        txs \in {<<>>, b.Transactions}, ph \in {<<>>, b.PrevHash},
        h \in {<<>>, b.Hash}, n \in {<<>>, b.Nonce}, d \in {0, b.Difficulty}}

\* what a read of Blockchain[len(Blockchain)-1] by flow p can return
TailViews(p) ==
    {Last(Blockchain)} \cup UNION {TornBlocks(newBlock[q]) : q \in Writers(p)}

\* what a read of Blockchain by flow p can return
ChainViews(p) ==
    {Blockchain} \cup
    {Append(Blockchain, tb) : tb \in UNION {TornBlocks(newBlock[q]) : q \in Writers(p)}}

\* ------------------------------------------------------------------ actions
\* the transport hands the requests to the flows in the order of arrival
Arrives(p) == pc[p] = "idle" /\ \A q \in AllFlows : q < p => pc[q] # "idle"

\* handleAPIRequests: the flow takes the next request, of method m
Dispatch(p, m) ==
    /\ Arrives(p)
    /\ method' = [method EXCEPT ![p] = m]

\* the flow writes its response and returns
Respond(p, r) ==
    /\ resp' = [resp EXCEPT ![p] = r]
    /\ pc' = [pc EXCEPT ![p] = "done"]

\* GET: handleGetBlockchain reads the chain without the mutex
handleGetBlockchain(p) ==
    /\ Dispatch(p, "GET")
    /\ \E snapshot \in ChainViews(p) : Respond(p, Response(200, "", snapshot, 0))
    /\ readAt' = [readAt EXCEPT ![p] = [len |-> Len(Blockchain), appending |-> Writers(p)]]
    /\ UNCHANGED <<Blockchain, mutex, now, transaction, newBlock>>

\* POST, lines 89-94: the body does not decode
DecodeFails(p) ==
    /\ Dispatch(p, "POST")
    /\ Respond(p, Response(400, "Invalid request payload", <<>>, 0))
    /\ UNCHANGED <<Blockchain, mutex, now, transaction, newBlock, readAt>>

\* POST, lines 89-101 without the test of line 98
ReceiveTransactionUnchecked(p, t) ==
    /\ Dispatch(p, "POST")
    /\ transaction' = [transaction EXCEPT ![p] = t]
    /\ pc' = [pc EXCEPT ![p] = "generate"]
    /\ UNCHANGED <<Blockchain, mutex, now, newBlock, resp, readAt>>

\* POST, lines 89-101: the body decodes to t, and t is validated
ReceiveTransaction(p, t) ==
    /\ Dispatch(p, "POST")
    /\ transaction' = [transaction EXCEPT ![p] = t]
    /\ IF ~isTransactionValid(t)
       THEN Respond(p, Response(400, "Invalid transaction", <<>>, 0))
       ELSE /\ pc' = [pc EXCEPT ![p] = "generate"]
            /\ UNCHANGED resp
    /\ UNCHANGED <<Blockchain, mutex, now, newBlock, readAt>>

\* line 104 and generateBlock up to the loop: reads the tail, reads the clock
GenerateBlock(p) ==
    /\ pc[p] = "generate"
    /\ \E t \in now..MaxNow :
          /\ now' = t
          /\ \E candidate \in {newCandidate(oldBlock, <<transaction[p]>>, t) :
                                   oldBlock \in TailViews(p)} :
                newBlock' = [newBlock EXCEPT ![p] = candidate]
    /\ pc' = [pc EXCEPT ![p] = "mine"]
    /\ UNCHANGED <<Blockchain, mutex, method, transaction, resp, readAt>>

\* the mining loop run under the mutex, taken before generateBlock is called
MineBlockUnderMutex(p) ==
    /\ pc[p] = "mine"
    /\ mutex = 0
    /\ mutex' = p
    /\ LET mined == mine(newBlock[p])
       IN  /\ mined.Hash # <<>>
           /\ newBlock' = [newBlock EXCEPT ![p] = mined]
    /\ pc' = [pc EXCEPT ![p] = "verify"]
    /\ UNCHANGED <<Blockchain, now, method, transaction, resp, readAt>>

\* generateBlock, the mining loop, run to its break
MineBlock(p) ==
    /\ pc[p] = "mine"
    /\ LET mined == mine(newBlock[p])
       IN  /\ mined.Hash # <<>>
           /\ newBlock' = [newBlock EXCEPT ![p] = mined]
    /\ pc' = [pc EXCEPT ![p] = "verify"]
    /\ UNCHANGED <<Blockchain, mutex, now, method, transaction, resp, readAt>>

\* line 107 with a retry: a candidate that fails is generated again
VerifyBlockRetry(p) ==
    /\ pc[p] = "verify"
    /\ \E valid \in {isBlockValid(newBlock[p], oldBlock) : oldBlock \in TailViews(p)} :
          IF valid
          THEN pc' = [pc EXCEPT ![p] = "lock"]
          ELSE pc' = [pc EXCEPT ![p] = "generate"]
    /\ UNCHANGED <<Blockchain, mutex, now, method, transaction, newBlock, resp, readAt>>

\* line 107: reads the tail again and verifies the candidate against it
VerifyBlock(p) ==
    /\ pc[p] = "verify"
    /\ \E valid \in {isBlockValid(newBlock[p], oldBlock) : oldBlock \in TailViews(p)} :
          IF valid
          THEN /\ pc' = [pc EXCEPT ![p] = "lock"]
               /\ UNCHANGED resp
          ELSE Respond(p, Response(500, "Invalid block", <<>>, 0))
    /\ UNCHANGED <<Blockchain, mutex, now, method, transaction, newBlock, readAt>>

\* line 108
Lock(p) ==
    /\ pc[p] = "lock"
    /\ mutex = 0
    /\ mutex' = p
    /\ pc' = [pc EXCEPT ![p] = "append"]
    /\ UNCHANGED <<Blockchain, now, method, transaction, newBlock, resp, readAt>>

\* line 109 with the block stored twice
AppendBlockTwice(p) ==
    /\ pc[p] = "append"
    /\ Blockchain' = Append(Append(Blockchain, newBlock[p]), newBlock[p])
    /\ pc' = [pc EXCEPT ![p] = "unlock"]
    /\ UNCHANGED <<mutex, now, method, transaction, newBlock, resp, readAt>>

\* line 109
AppendBlock(p) ==
    /\ pc[p] = "append"
    /\ Blockchain' = Append(Blockchain, newBlock[p])
    /\ pc' = [pc EXCEPT ![p] = "unlock"]
    /\ UNCHANGED <<mutex, now, method, transaction, newBlock, resp, readAt>>

\* lines 110-111 without the release of the mutex
UnlockKeepsMutex(p) ==
    /\ pc[p] = "unlock"
    /\ Respond(p, Response(200, "Transaction added to Block", <<>>, newBlock[p].Index))
    /\ UNCHANGED <<Blockchain, mutex, now, method, transaction, newBlock, readAt>>

\* lines 110-111
Unlock(p) ==
    /\ pc[p] = "unlock"
    /\ mutex' = 0
    /\ Respond(p, Response(200, "Transaction added to Block", <<>>, newBlock[p].Index))
    /\ UNCHANGED <<Blockchain, now, method, transaction, newBlock, readAt>>

\* a step of flow p
Step(p) ==
    \/ handleGetBlockchain(p)
    \/ DecodeFails(p)
    \/ \E t \in TxInputs : ReceiveTransaction(p, t)
    \/ GenerateBlock(p)
    \/ MineBlock(p)
    \/ VerifyBlock(p)
    \/ Lock(p)
    \/ AppendBlock(p)
    \/ Unlock(p)

Next == \E p \in Flows : Step(p)

Spec == Init /\ [][Next]_vars

\* the same, with the further clients sending their GET
NextReaders == Next \/ \E p \in Readers : handleGetBlockchain(p)

SpecReaders == Init /\ [][NextReaders]_vars

\* the steps of the handler of a POST that has been received
Run(p) ==
    \/ GenerateBlock(p)
    \/ MineBlock(p)
    \/ VerifyBlock(p)
    \/ Lock(p)
    \/ AppendBlock(p)
    \/ Unlock(p)

\* the server when every request is a POST
Post(p) ==
    \/ DecodeFails(p)
    \/ \E t \in TxInputs : ReceiveTransaction(p, t)
    \/ Run(p)

NextPosts == \E p \in Flows : Post(p)

\* a step that needs nothing but the processor can be taken whenever the flow
\* stands at its label, and leaves the label: weak fairness of such a step says
\* that the flow does not stand at the label for ever
Leaves(p, label) == []<>(pc[p] # label)

\* every mining search finds its nonce
MinerTerminates(p) == Leaves(p, "mine")

\* the runtime schedules every goroutine that can run, and hands a free mutex
\* to a flow that waits for it
FairSpec ==
    /\ Init /\ [][NextPosts]_vars
    /\ \A p \in Flows :
          /\ Leaves(p, "generate")
          /\ MinerTerminates(p)
          /\ Leaves(p, "verify")
          /\ WF_vars(Lock(p) \/ AppendBlock(p) \/ Unlock(p))

\* sequential use: a flow steps only while no other flow is inside its handler
NextSequential ==
    \E p \in Flows :
        /\ \A q \in Flows \ {p} : pc[q] \in {"idle", "done"}
        /\ Step(p)

SpecSequential == Init /\ [][NextSequential]_vars

\* --------------------------------------------------- isBlockValid alone
\* isBlockValid applied to arguments of any make: the chain ends in a
\* predecessor, and flow 1 stands at line 107 with a candidate that generateBlock
\* need not have built
MaxTriedNonce == 3

Payment == <<Transaction(<<"a">>, <<"b">>, 2)>>

Predecessors ==
    {<<genesisBlock(t)>> : t \in 0..MaxNow}
        \cup {<<genesisBlock(0), mine(newCandidate(genesisBlock(0), Payment, 0))>>}

Candidates(oldBlock) ==
    UNION {LET c == [Index |-> i, Timestamp |-> TimeString(0), Transactions |-> Payment,
                     PrevHash |-> ph, Hash |-> <<>>, Nonce |-> Itoa(n),
                     Difficulty |-> difficulty]
           IN  {[c EXCEPT !.Hash = h] : h \in {calculateHash(c), oldBlock.Hash}} :
              i \in {oldBlock.Index, oldBlock.Index + 1},
              ph \in {oldBlock.Hash, oldBlock.PrevHash},
              n \in 0..MaxTriedNonce}

InitValidator ==
    /\ now = 0
    /\ Blockchain \in Predecessors
    /\ mutex = 0
    /\ pc = [p \in AllFlows |-> IF p = 1 THEN "verify" ELSE "idle"]
    /\ method = [p \in AllFlows |-> IF p = 1 THEN "POST" ELSE ""]
    /\ transaction = [p \in AllFlows |-> IF p = 1 THEN Payment[1] ELSE Transaction(<<>>, <<>>, 0)]
    /\ \E c \in Candidates(Last(Blockchain)) :
          newBlock = [p \in AllFlows |-> IF p = 1 THEN c ELSE ZeroBlock]
    /\ resp = [p \in AllFlows |-> NoResponse]
    /\ readAt = [p \in AllFlows |-> [len |-> 0, appending |-> {}]]

NextValidator == \E p \in Flows : VerifyBlock(p)

SpecValidator == InitValidator /\ [][NextValidator]_vars

\* ------------------------------------------------------------------- claims
IsPrefix(s, t) == Len(s) <= Len(t) /\ SubSeq(t, 1, Len(s)) = s

\* C1: every adjacent pair of blocks (prev, cur) of the chain has
\* cur.Index = prev.Index + 1, cur.PrevHash = prev.Hash and
\* calculateHash(cur) = cur.Hash, and no two blocks have the same Index.
C1_ChainLinked ==
    /\ \A i \in 2..Len(Blockchain) :
          /\ Blockchain[i].Index = Blockchain[i - 1].Index + 1
          /\ Blockchain[i].PrevHash = Blockchain[i - 1].Hash
          /\ calculateHash(Blockchain[i]) = Blockchain[i].Hash
    /\ \A i, j \in 1..Len(Blockchain) :
          Blockchain[i].Index = Blockchain[j].Index => i = j

\* C2: a flow that stands at its append step, having verified its candidate,
\* has a candidate built on the block that is the tail of the ledger now: had
\* another append committed since the predecessor was read, the verification
\* would have failed.
C2_BuiltOnTail ==
    \A p \in Flows :
        pc[p] = "append" =>
            /\ newBlock[p].Index = Last(Blockchain).Index + 1
            /\ newBlock[p].PrevHash = Last(Blockchain).Hash

\* C3: every append of a POST flow makes the chain longer by exactly one
\* block, and the new tail's PrevHash is the Hash of the tail before the append.
C3_AppendExtends ==
    [][Blockchain' # Blockchain =>
          /\ Len(Blockchain') = Len(Blockchain) + 1
          /\ Last(Blockchain').PrevHash = Last(Blockchain).Hash]_vars

\* C4: every block of the chain, the genesis block included, has
\* calculateHash(b) = b.Hash, and the first b.Difficulty characters of b.Hash
\* are all "0".
C4_EveryBlockHashed ==
    \A i \in 1..Len(Blockchain) :
        /\ calculateHash(Blockchain[i]) = Blockchain[i].Hash
        /\ isHashValid(Blockchain[i].Hash, Blockchain[i].Difficulty)

\* flow p reads the shared chain in this step: the snapshot of a GET, the tail
\* read for generateBlock, or the tail read for isBlockValid
ReadsChain(p) ==
    \/ pc[p] = "idle" /\ method'[p] = "GET"
    \/ pc[p] = "generate" /\ pc'[p] = "mine"
    \/ pc[p] = "verify" /\ pc'[p] # "verify"

\* C5: while a flow is between mutex.Lock and mutex.Unlock, no other flow
\* reads the shared chain.
C5_NoReadInCriticalSection ==
    [][\A p \in Flows : ReadsChain(p) => mutex = 0]_vars

GetDone(p) == method[p] = "GET" /\ pc[p] = "done"

\* the blocks of a snapshot are the blocks of the chain at the same positions
AgreesWith(snapshot, chain) ==
    \A i \in 1..Len(snapshot) : i <= Len(chain) => snapshot[i] = chain[i]

\* C6: the chain before a step is a prefix of the chain after it, and the
\* snapshot a GET has returned equals, block for block, the chain from then on.
C6_AppendOnly ==
    [][/\ IsPrefix(Blockchain, Blockchain')
       /\ \A p \in Flows : GetDone(p)' => AgreesWith(resp'[p].blocks, Blockchain')]_vars

BadTransaction(t) == t.Sender = <<>> \/ t.Receiver = <<>> \/ t.Amount <= 0

\* C7: a POST whose transaction has an empty Sender, an empty Receiver or
\* Amount <= 0 ends at once with 400 "Invalid transaction"; the step leaves the
\* chain as it was, and the flow has mined nothing and never leaves its end.
C7_InvalidTransactionRejected ==
    [][\A p \in Flows :
          (/\ method'[p] = "POST"
           /\ resp'[p].text # "Invalid request payload"
           /\ BadTransaction(transaction'[p]))
          => /\ pc'[p] = "done"
             /\ resp'[p] = Response(400, "Invalid transaction", <<>>, 0)
             /\ newBlock'[p] = ZeroBlock
             /\ pc[p] = "idle" => Blockchain' = Blockchain]_vars

C7_Witness ==
    \E p \in Flows :
        /\ BadTransaction(transaction[p])
        /\ resp[p].text = "Invalid transaction"
        /\ Len(Blockchain) >= 2

Rank(l) ==
    CASE l = "idle" -> 0 [] l = "generate" -> 1 [] l = "mine" -> 2
      [] l = "verify" -> 3 [] l = "lock" -> 4 [] l = "append" -> 5
      [] l = "unlock" -> 6 [] l = "done" -> 7

\* C8: a flow whose candidate fails the check against the tail ends with 500
\* "Invalid block" in a step that leaves the chain as it was; the flow passes
\* through each of its steps at most once (one mining run, one check), and a
\* flow that has ended stays ended with the response it gave.
C8_InvalidBlockTerminal ==
    [][\A p \in Flows :
          /\ (/\ pc[p] = "verify"
              /\ pc'[p] # "verify"
              /\ \A oldBlock \in TailViews(p) :
                    \/ oldBlock.Index + 1 # newBlock[p].Index
                    \/ oldBlock.Hash # newBlock[p].PrevHash
                    \/ calculateHash(newBlock[p]) # newBlock[p].Hash)
             => /\ pc'[p] = "done"
                /\ resp'[p] = Response(500, "Invalid block", <<>>, 0)
                /\ Blockchain' = Blockchain
          /\ pc'[p] # pc[p] => Rank(pc'[p]) > Rank(pc[p])
          /\ pc[p] = "done" => resp'[p] = resp[p] /\ newBlock'[p] = newBlock[p]
          /\ resp'[p].code = 500 => pc'[p] = "done"]_vars

C8_Witness ==
    \E p \in Flows :
        /\ resp[p] = Response(500, "Invalid block", <<>>, 0)
        /\ pc[p] = "done"
        /\ ~isBlockValid(newBlock[p], Last(Blockchain))

\* C9: the chain has at least one block, and the block at position 0 has
\* Index 0, an empty PrevHash and no transactions.
C9_Genesis ==
    /\ Len(Blockchain) >= 1
    /\ Blockchain[1].Index = 0
    /\ Blockchain[1].PrevHash = <<>>
    /\ Blockchain[1].Transactions = <<>>

C9_Witness == Len(Blockchain) >= 3 /\ Blockchain[1].Index = 0

Mined(p) == newBlock[p].Nonce # <<>>

SamePayload(a, b) ==
    /\ a.Index = b.Index
    /\ a.Timestamp = b.Timestamp
    /\ a.PrevHash = b.PrevHash
    /\ a.Transactions = b.Transactions
    /\ a.Difficulty = b.Difficulty

\* C10: the block that leaves the mining loop (the flow stands at the check that
\* follows generateBlock) carries the smallest n >= 0, as
\* a decimal string, for which the hash of the block with that nonce has its
\* first `difficulty` characters "0", and that hash; two runs over the same
\* payload give the same nonce and hash.
C10_SmallestNonce ==
    /\ \A p \in Flows :
          pc[p] = "verify" =>
             \E n \in 0..MaxNonce :
                /\ newBlock[p].Nonce = Itoa(n)
                /\ newBlock[p].Hash = calculateHash(newBlock[p])
                /\ SubSeq(newBlock[p].Hash, 1, difficulty) = [i \in 1..difficulty |-> "0"]
                /\ \A m \in 0..(n - 1) :
                      SubSeq(calculateHash([newBlock[p] EXCEPT !.Nonce = Itoa(m)]),
                             1, difficulty) # [i \in 1..difficulty |-> "0"]
    /\ \A p, q \in Flows :
          Mined(p) /\ Mined(q) /\ SamePayload(newBlock[p], newBlock[q])
             => newBlock[p].Nonce = newBlock[q].Nonce /\ newBlock[p].Hash = newBlock[q].Hash

C10_Witness ==
    \E p, q \in Flows :
        /\ p # q
        /\ pc[p] = "verify"
        /\ Mined(p) /\ Mined(q)
        /\ SamePayload(newBlock[p], newBlock[q])
        /\ newBlock[p].Nonce \notin {<<"0">>, <<"1">>}

GetRead(p) == method[p] = "GET" /\ pc[p] = "done"

\* C11: a GET leaves the chain as it was, and two GETs with no append between
\* them (at both reads the chain had the same length, and the same appends, or
\* none, were under way) return equal sequences.
C11_ReadsIdempotent ==
    [][/\ (\E p \in AllFlows : pc[p] = "idle" /\ method'[p] = "GET")
            => Blockchain' = Blockchain
       /\ \A p, q \in AllFlows :
             (GetRead(p)' /\ GetRead(q)' /\ readAt'[p] = readAt'[q])
                => resp'[p].blocks = resp'[q].blocks]_vars

\* C12: under sequential use no candidate fails its check: no flow answers
\* 500 "Invalid block", and a POST of a valid transaction that has ended has
\* answered 200 and its block is in the chain.
C12_SequentialCommits ==
    \A p \in Flows :
        /\ resp[p].code # 500
        /\ (pc[p] = "done" /\ method[p] = "POST" /\ ~BadTransaction(transaction[p]))
              => /\ resp[p] = Response(200, "Transaction added to Block", <<>>,
                                       newBlock[p].Index)
                 /\ \E i \in 2..Len(Blockchain) : Blockchain[i] = newBlock[p]

C12_Witness ==
    /\ Len(Blockchain) = NumFlows + 1
    /\ \A p \in Flows : pc[p] = "done" /\ resp[p].code = 200 /\ method[p] = "POST"

\* C13: under fair scheduling every POST flow ends, with one of the answers
\* 400, 500 or 200, which it keeps; a flow that waits for the mutex gets it,
\* and a flow that holds the mutex releases it.
C13_EveryPostEnds ==
    /\ \A p \in Flows :
          /\ (method[p] = "POST") ~> (pc[p] = "done" /\ resp[p].code \in {200, 400, 500})
          /\ (pc[p] = "lock") ~> (mutex = p)
          /\ (mutex = p) ~> (mutex # p)
    /\ [][\A p \in Flows : pc[p] = "done" => pc'[p] = "done" /\ resp'[p] = resp[p]]_vars

C13_Witness ==
    /\ mutex = 0
    /\ \E p, q \in Flows :
          /\ pc[p] = "done" /\ resp[p].code = 500
          /\ pc[q] = "done" /\ resp[q].code = 200

\* C14: the mutex is held only around the append: the holder stands at the
\* append or at the release, a flow that builds, mines or verifies its block
\* does not hold it, and so two flows can be in the mining loop together
C14_MutexOnlyAroundAppend ==
    /\ mutex \in {0} \cup Flows
    /\ \A p \in Flows :
          /\ mutex = p <=> pc[p] \in {"append", "unlock"}
          /\ pc[p] \in {"generate", "mine", "verify"} => mutex # p

C14_Witness ==
    \E p, q \in Flows : p # q /\ pc[p] = "mine" /\ pc[q] = "mine"
\* C15: isBlockValid(candidate, predecessor) is true exactly when the candidate's
\* Index is the predecessor's plus one, its PrevHash is the predecessor's Hash and
\* its Hash is calculateHash of it; the difficulty prefix of the hash plays no part
Accepted(p) == pc[p] = "lock"

C15_ValidatorIff ==
    [][\A p \in Flows :
          (pc[p] = "verify" /\ pc'[p] # "verify") =>
              (Accepted(p)' <=>
                  /\ newBlock[p].Index = Last(Blockchain).Index + 1
                  /\ newBlock[p].PrevHash = Last(Blockchain).Hash
                  /\ calculateHash(newBlock[p]) = newBlock[p].Hash)]_vars

C15_Witness ==
    \E p \in Flows :
        /\ Accepted(p)
        /\ ~isHashValid(newBlock[p].Hash, difficulty)
\* C16: the chain is one block longer than the number of POST flows that have
\* appended; the genesis block holds no transaction, and every other block is
\* the block of a flow that appended and holds the one transaction it submitted
HasAppended(p) ==
    \/ pc[p] = "unlock"
    \/ pc[p] = "done" /\ method[p] = "POST" /\ resp[p].code = 200

C16_OneBlockPerCommit ==
    /\ Len(Blockchain) = 1 + Cardinality({p \in Flows : HasAppended(p)})
    /\ Blockchain[1].Transactions = <<>>
    /\ \A i \in 2..Len(Blockchain) :
          /\ Len(Blockchain[i].Transactions) = 1
          /\ \E p \in Flows : /\ HasAppended(p)
                               /\ Blockchain[i] = newBlock[p]
                               /\ Blockchain[i].Transactions = <<transaction[p]>>
    /\ \A p \in Flows :
          HasAppended(p) => \E i \in 2..Len(Blockchain) : Blockchain[i] = newBlock[p]

C16_Witness ==
    /\ Len(Blockchain) = 2
    /\ \E p, q \in Flows : /\ HasAppended(p) /\ pc[p] = "done"
                           /\ pc[q] = "done" /\ resp[q].code = 500

\* C17: every transaction of every block of the chain has a Sender, a
\* Receiver, and an Amount above zero
C17_NoInvalidTransactionStored ==
    \A i \in 1..Len(Blockchain) :
        \A j \in 1..Len(Blockchain[i].Transactions) :
            LET t == Blockchain[i].Transactions[j]
            IN  t.Sender # <<>> /\ t.Receiver # <<>> /\ t.Amount > 0

C17_Witness ==
    /\ Len(Blockchain) > 1
    /\ \E p \in Flows : /\ pc[p] = "done" /\ resp[p].code = 400
                        /\ BadTransaction(transaction[p])
====
